---- MODULE Spec2Model ----
(***************************************************************************)
(* A model of the AutoFill-AI backend services: the session-scoped vector  *)
(* store (rag_service), the agentic retrieval policy (query_document), the *)
(* per-field extraction loop (extraction_service) and the document filler  *)
(* (file_filler_service).                                                  *)
(*                                                                         *)
(* Texts are sequences of tokens.  A token is a short string standing for  *)
(* a word or a character; substring tests of the code ("x" in s) are tests *)
(* on the words a token contains.                                          *)
(***************************************************************************)
EXTENDS Integers, Sequences, FiniteSets, TLC

VARIABLES
    store,      \* Qdrant: collection name -> sequence of stored documents
    files,      \* temporary files that exist on disk
    ires,       \* outcome of the last process_and_index_document call
    qres,       \* outcome of the last query_document call
    exPc,       \* extract_fields: "idle", "loop" or "done"
    exFields,   \* extract_fields: the list of field specifications
    exSid,      \* extract_fields: the session id
    exIdx,      \* extract_fields: number of fields handled so far
    exResults,  \* extract_fields: the results list
    exLast,     \* what happened while handling the last field
    fres,       \* outcome of the last fill_document call
    post,       \* the numeric post-processing of one answer: input and output
    sres,       \* outcome of the last analyze_form call
    feSession,  \* frontend: st.session_state.session_id of every browser session
    uuids,      \* frontend: the number of uuid4 values generated so far
    req         \* the last request of a browser session and how it was routed

\* the frontend
frontendVars == <<feSession, uuids, req>>

\* the variables a service call leaves alone, whichever call it is
others == <<post, sres, frontendVars>>

vars == <<store, files, ires, qres, exPc, exFields, exSid, exIdx, exResults, exLast, fres,
          others>>

-----------------------------------------------------------------------------
(* Bounds of the model *)

MaxItems == 2      \* documents held by one collection
MaxPages == 2      \* pages of one parsed upload
MaxTmp == 1        \* temporary file names available
MaxAnsLen == 2     \* tokens in a generated answer
MaxFields == 2     \* field specifications in one extraction request
MaxExItems == 1    \* documents held by one collection while fields are extracted
MaxChunks == 2     \* placeholders and words in one text of a template
MaxNumLen == 4     \* characters of an answer handed to the numeric post-processing
MaxUuids == 4      \* session ids the frontend generates

Sessions == {"s1", "s2"}
Filenames == {"a.pdf", "b.pdf"}
PageTexts == {<<"revenue">>}
Questions == {<<"revenue">>, <<"DuckDuckGo">>}

None == "<none>"

\* the value None of a FieldResult (values are texts)
Null == <<None>>

-----------------------------------------------------------------------------
(* Text helpers *)

\* str.lower() on one token
LowerTok(t) ==
    CASE t = "Search" -> "search"
      [] t = "Research" -> "research"
      [] t = "DuckDuckGo" -> "duckduckgo"
      [] t = "MISSING" -> "missing"
      [] t = "PDF" -> "pdf"
      [] t = "DOCX" -> "docx"
      [] OTHER -> t

\* str.lower()
Lower(s) == [i \in DOMAIN s |-> LowerTok(s[i])]

\* the words of interest that occur inside a token (case-sensitive)
SubWords(t) ==
    CASE t = "research" -> {"research", "search"}
      [] OTHER -> {t}

\* w in s
Contains(s, w) == \E i \in DOMAIN s : w \in SubWords(s[i])

\* sep.join(parts)
RECURSIVE Join(_, _)
Join(parts, sep) ==
    IF parts = <<>> THEN <<>>
    ELSE IF Len(parts) = 1 THEN parts[1]
    ELSE parts[1] \o sep \o Join(Tail(parts), sep)

\* x in list
InList(x, list) == \E i \in DOMAIN list : list[i] = x

\* all sequences over S of length at most n
SeqUpTo(S, n) == UNION {[1..k -> S] : k \in 0..n}

\* the sequences of distinct indices of 1..n of length k
Picks(n, k) == {p \in [1..k -> 1..n] : \A i, j \in 1..k : i # j => p[i] # p[j]}

Min(a, b) == IF a < b THEN a ELSE b

-----------------------------------------------------------------------------
(* rag_service.py *)

\* a variant with one collection for every session
CollectionNameShared(session_id) == "reference_docs"

\* collection_name = f"session_{session_id}"
CollectionName(session_id) == "session_" \o session_id

\* Document(page_content=page.text, metadata={"source": file.filename});
\* owner records the session id of the call that indexed it
MakeDocs(pages, filename, session_id) ==
    [i \in DOMAIN pages |->
        [page_content |-> pages[i], source |-> filename, owner |-> session_id]]

\* a variant that builds the collection anew (force_recreate=True)
FromDocumentsRecreate(st, name, docs) ==
    [c \in DOMAIN st \cup {name} |-> IF c = name THEN docs ELSE st[c]]

\* QdrantVectorStore.from_documents(..., force_recreate=False): the
\* collection is created when absent and the documents are appended
FromDocuments(st, name, docs) ==
    [c \in DOMAIN st \cup {name} |->
        IF c = name
        THEN (IF name \in DOMAIN st THEN st[name] ELSE <<>>) \o docs
        ELSE st[c]]

Count(st, name) == Len(st[name])

\* tempfile.NamedTemporaryFile(delete=False, suffix=...) picks an unused name
FreshName(fs) == ToString(Cardinality(fs) + 1)
TmpPath(name, suffix) == <<"tmp", name>> \o suffix

\* the values of ires, qres, exLast and fres while no call has returned
NoIndex ==
    [status |-> None, chunks |-> 0, collection |-> None, filename |-> None,
     session_id |-> None, pages |-> 0]
NoQuery ==
    [answer |-> <<>>, source_documents |-> <<>>, raised |-> FALSE,
     error |-> FALSE, probe |-> FALSE, docs |-> <<>>, tool |-> FALSE,
     duck |-> FALSE, session_id |-> None]
NoField == [key |-> <<>>]
NoDoc == [kind |-> None, paragraphs |-> <<>>, cells |-> <<>>, widgets |-> <<>>]
NoFill ==
    [status |-> None, error |-> None, output_path |-> <<>>, called |-> None,
     content |-> NoDoc, filename |-> <<>>, data |-> <<>>, template |-> NoDoc,
     before |-> {}]

\* JSON values as the output parser hands them over: kind is "object",
\* "array", "string" or "null"; items are the elements of an array
Json(kind, items) == [kind |-> kind, items |-> items]
NoJson == Json(None, <<>>)
NoSchema ==
    [status |-> None, error |-> None, value |-> NoJson, filename |-> <<>>,
     has_fields |-> FALSE, result |-> NoJson, fields |-> NoJson, before |-> {}]

NoReq ==
    [op |-> None, tab |-> None, via |-> None, fe_session |-> None,
     error |-> None, used |-> None, collection |-> None]

\* every operation starts when the previous call has returned
Idle ==
    /\ ires = NoIndex /\ qres = NoQuery /\ exPc = "idle" /\ fres = NoFill
    /\ sres = NoSchema /\ req = NoReq

ProcessAndIndex(filename, session_id, pages, outcome, written) ==
    LET collection_name == CollectionName(session_id)
        langchain_docs == MakeDocs(pages, filename, session_id)
        path == TmpPath(FreshName(files), <<".", "pdf">>)
        \* for the properties: the arguments and the number of parsed pages
        seen == [filename |-> filename, session_id |-> session_id,
                 pages |-> Len(pages)]
        Raised == [status |-> "raised", chunks |-> 0, collection |-> None] @@ seen
    IN  /\ CASE outcome = "copy_error" ->
                \* copyfileobj raised inside the with block: temp_file_path
                \* is still None, the finally clause removes nothing
                /\ files' = files \cup {path}
                /\ store' = store
                /\ ires' = Raised
             [] outcome = "parse_error" ->
                /\ files' = files
                /\ store' = store
                /\ ires' = Raised
             [] outcome = "store_error" ->
                \* the store failed after writing a prefix of the documents
                /\ files' = files
                /\ store' = IF written < 0 THEN store
                            ELSE FromDocuments(store, collection_name,
                                               SubSeq(langchain_docs, 1, written))
                /\ ires' = Raised
             [] outcome = "ok" ->
                /\ files' = files
                /\ store' = FromDocuments(store, collection_name, langchain_docs)
                /\ ires' = [status |-> "success", chunks |-> Len(langchain_docs),
                            collection |-> collection_name] @@ seen

RetrieveK == 3

IndexOutcomes == {"ok", "copy_error", "parse_error", "store_error"}

\* a call of process_and_index_document: one of the files, for one of the
\* sessions, leaving at most cap documents in the collection, the outside
\* world behaving as in outcomes
IndexWith(filenames, sessions, cap, outcomes) ==
    /\ Idle
    /\ \E filename \in filenames, session_id \in sessions,
          pages \in SeqUpTo(PageTexts, MaxPages), outcome \in outcomes :
      \E written \in -1..(Len(pages) - 1) :
        /\ outcome # "store_error" => written = -1
        /\ outcome = "copy_error" => Cardinality(files) < MaxTmp
        /\ LET n == CollectionName(session_id)
           IN  (IF n \in DOMAIN store THEN Len(store[n]) ELSE 0) + Len(pages) <= cap
        /\ ProcessAndIndex(filename, session_id, pages, outcome, written)
        /\ UNCHANGED <<others, qres, exPc, exFields, exSid, exIdx, exResults, exLast, fres>>

Index == IndexWith(Filenames, Sessions, MaxItems, IndexOutcomes)

\* the outputs an agent run can hand back in response["output"]:
\* a string, a list of content blocks, or some other object
StrOutput(text) == [kind |-> "str", text |-> text, items |-> <<>>]
ListOutput(items) == [kind |-> "list", text |-> <<>>, items |-> items]
OtherOutput(text) == [kind |-> "other", text |-> text, items |-> <<>>]

\* final_answer built from the items of a list output; ok is FALSE when +=
\* meets a "text" entry that is not a string (TypeError)
RECURSIVE ConcatItems(_)
ConcatItems(items) ==
    IF items = <<>> THEN [ok |-> TRUE, text |-> <<>>]
    ELSE LET item == items[1]
             rest == ConcatItems(Tail(items))
         IN  IF item.kind = "dict_text" \/ item.kind = "str"
             THEN [ok |-> rest.ok, text |-> item.text \o rest.text]
             ELSE IF item.kind = "dict_bad" THEN [ok |-> FALSE, text |-> <<>>]
             ELSE rest

FinalAnswer(raw_output) ==
    IF raw_output.kind = "str" THEN [ok |-> TRUE, text |-> raw_output.text]
    ELSE IF raw_output.kind = "list" THEN ConcatItems(raw_output.items)
    ELSE [ok |-> TRUE, text |-> raw_output.text]

\* the text of str(response): the question, the context and the repr of the
\* output (intermediate steps are not part of the response)
RECURSIVE ItemsText(_)
ItemsText(items) ==
    IF items = <<>> THEN <<>> ELSE items[1].text \o ItemsText(Tail(items))

ResponseText(question, context, raw_output) ==
    question \o context \o raw_output.text \o ItemsText(raw_output.items)

\* "duckduckgo" in str(response).lower() or "search" in final_answer.lower()
DuckInResponse(question, context, raw_output) ==
    Contains(Lower(ResponseText(question, context, raw_output)), "duckduckgo")

SearchMarker(question, context, raw_output, final_answer) ==
    \/ DuckInResponse(question, context, raw_output)
    \/ Contains(Lower(final_answer), "search")

\* if "Internet Search" not in sources: sources.append("Internet Search")
MarkSources(sources) ==
    IF ~InList("Internet Search", sources)
    THEN Append(sources, "Internet Search") ELSE sources

\* a variant whose except clause returns the sources collected so far
QueryErrorKeepsSources(e, sources) ==
    [answer |-> <<"I encountered an error while thinking: ", e>>,
     source_documents |-> sources,
     raised |-> FALSE]

\* the except clause of query_document
QueryError(e, sources) ==
    [answer |-> <<"I encountered an error while thinking: ", e>>,
     source_documents |-> <<>>,
     raised |-> FALSE]

\* any(c.name == collection_name for c in collections)
HasCollection(st, collection_name) == \E c \in DOMAIN st : c = collection_name

\* a variant of the probe that does not look at the item count
HasDocumentsNoCount(st, collection_name) == HasCollection(st, collection_name)

\* has_collection and client.count(collection_name).count > 0
HasDocuments(st, collection_name) ==
    HasCollection(st, collection_name) /\ Count(st, collection_name) > 0

NoDocsContext == <<"No internal documents uploaded for this session.">>

\* query_document.  env is what the outside world does during the call:
\*   fail: the step that raises, if it is reached
\*   picks: the positions of the collection the retriever selects
\*   raw_output: what the agent returns;  tool: whether it ran its search tool
\* The result carries the returned dict (answer, source_documents) and, for
\* the properties, what happened inside: raised, probe, docs, tool.
QueryDocument(st, question, session_id, env) ==
    LET collection_name == CollectionName(session_id)
        Caught(e, sources, probe, docs) ==
            QueryError(e, sources) @@
            [error |-> TRUE, probe |-> probe, docs |-> docs, tool |-> FALSE,
             duck |-> FALSE, session_id |-> session_id]
    IN  IF env.fail = "connect" THEN Caught("connect", <<>>, FALSE, <<>>)
        ELSE IF env.fail = "get_collections"
        THEN Caught("get_collections", <<>>, FALSE, <<>>)
        ELSE
        LET has_collection == HasCollection(st, collection_name)
        IN  IF has_collection /\ env.fail = "count"
            THEN Caught("count", <<>>, FALSE, <<>>)
            ELSE
            LET probe == HasDocuments(st, collection_name)
            IN  IF probe /\ env.fail = "retrieve"
                THEN Caught("retrieve", <<>>, probe, <<>>)
                ELSE
                LET docs == IF probe
                            THEN [i \in DOMAIN env.picks |->
                                     st[collection_name][env.picks[i]]]
                            ELSE <<>>
                    retrieved_context ==
                        IF probe
                        THEN Join([i \in DOMAIN docs |-> docs[i].page_content],
                                  <<"\n\n">>)
                        ELSE NoDocsContext
                    sources == [i \in DOMAIN docs |-> docs[i].source]
                IN  IF env.fail = "agent"
                    THEN Caught("agent", sources, probe, docs)
                    ELSE
                    LET built == FinalAnswer(env.raw_output)
                        final_answer == built.text
                    IN  IF ~built.ok
                        THEN Caught("TypeError", sources, probe, docs)
                        ELSE
                        [answer |-> final_answer,
                         source_documents |->
                            IF SearchMarker(question, retrieved_context,
                                            env.raw_output, final_answer)
                            THEN MarkSources(sources) ELSE sources,
                         raised |-> FALSE, error |-> FALSE, probe |-> probe,
                         docs |-> docs, tool |-> env.tool,
                         duck |-> DuckInResponse(question, retrieved_context,
                                                 env.raw_output),
                         session_id |-> session_id]

AnsAlphabet == {"MISSING", "Search", "7"}
Answers == SeqUpTo(AnsAlphabet, MaxAnsLen)

ItemKinds == {"dict_text", "str", "dict_bad", "other"}

RawOutputs ==
    {StrOutput(a) : a \in Answers}
    \cup {ListOutput(<<[kind |-> k, text |-> <<"x">>]>>) : k \in ItemKinds}
    \cup {ListOutput(<<[kind |-> "dict_text", text |-> <<"x">>],
                       [kind |-> k, text |-> <<"Search">>]>>) : k \in ItemKinds}
    \cup {OtherOutput(<<"None">>)}

\* the retriever (MMR, k=3): min(k, count) distinct documents of the
\* collection, in any order
PickSets(st, session_id) ==
    LET n == CollectionName(session_id)
    IN  IF n \in DOMAIN st /\ Len(st[n]) > 0
        THEN Picks(Len(st[n]), Min(RetrieveK, Len(st[n])))
        ELSE {<<>>}

\* what the outside world can do during one query_document call: a step
\* raises before the agent has answered, or the agent answers
QueryEnvs(st, session_id, outputs, tools) ==
    {[fail |-> f, picks |-> <<>>, raw_output |-> StrOutput(<<>>), tool |-> FALSE] :
        f \in {"connect", "get_collections", "count", "retrieve"}}
    \cup {[fail |-> "agent", picks |-> p, raw_output |-> StrOutput(<<>>),
           tool |-> FALSE] : p \in PickSets(st, session_id)}
    \cup {[fail |-> "none", picks |-> p, raw_output |-> o, tool |-> t] :
            p \in PickSets(st, session_id), o \in outputs, t \in tools}

Query ==
    /\ Idle
    /\ \E question \in Questions, session_id \in Sessions :
      \E env \in QueryEnvs(store, session_id, RawOutputs, BOOLEAN) :
        /\ qres' = QueryDocument(store, question, session_id, env)
        /\ UNCHANGED <<others, store, files, ires, exPc, exFields, exSid, exIdx,
                       exResults, exLast, fres>>

-----------------------------------------------------------------------------
(* extraction_service.py *)

FieldKeys == {<<"a">>, <<"b">>}
Descriptions == {<<"revenue">>}
DataTypes == {"string", "number"}
FieldSpecs == [key : FieldKeys, description : Descriptions, data_type : DataTypes]

Digits == {"0", "1", "2", "3", "4", "5", "6", "7", "8", "9"}

\* s.replace(t, '') for a one-character t
RECURSIVE RemoveTok(_, _)
RemoveTok(s, t) ==
    IF s = <<>> THEN <<>>
    ELSE IF s[1] = t THEN RemoveTok(Tail(s), t)
    ELSE <<s[1]>> \o RemoveTok(Tail(s), t)

\* the number of digits of s starting at position j
RECURSIVE DigitRun(_, _)
DigitRun(s, j) ==
    IF j > Len(s) \/ s[j] \notin Digits THEN 0 ELSE 1 + DigitRun(s, j + 1)

\* \d*\.?\d+ matched greedily at position j: the last position of the match,
\* or 0 when there is none
RestEnd(s, j) ==
    LET n == DigitRun(s, j)
        m == IF j + n <= Len(s) /\ s[j + n] = "." THEN DigitRun(s, j + n + 1) ELSE 0
    IN  IF m >= 1 THEN j + n + m
        ELSE IF n >= 1 THEN j + n - 1
        ELSE 0

\* -?\d*\.?\d+ matched at position i: the last position of the match, or 0
MatchEnd(s, i) ==
    IF s[i] = "-" /\ RestEnd(s, i + 1) > 0 THEN RestEnd(s, i + 1)
    ELSE RestEnd(s, i)

\* re.search(r'-?\d*\.?\d+', s): the leftmost match, <<>> standing for None
NumericMatch(s) ==
    LET starts == {i \in DOMAIN s : MatchEnd(s, i) > 0}
    IN  IF starts = {} THEN <<>>
        ELSE LET i == CHOOSE k \in starts : \A l \in starts : k <= l
             IN  SubSeq(s, i, MatchEnd(s, i))

\* a variant that keeps the commas of the answer
PostProcessKeepCommas(data_type, answer) ==
    IF data_type = "number"
    THEN LET numeric_match == NumericMatch(answer)
         IN  IF numeric_match # <<>> THEN numeric_match ELSE answer
    ELSE answer

\* the post-processing of the answer of a number field
PostProcess(data_type, answer) ==
    IF data_type = "number"
    THEN LET numeric_match == NumericMatch(RemoveTok(answer, ","))
         IN  IF numeric_match # <<>> THEN numeric_match ELSE answer
    ELSE answer

\* the answers the post-processing is applied to, character by character,
\* and the example "$1,234.50 USD"
NumAlphabet == {"1", "5", ",", ".", "-", "x"}
UsdExample == <<"$", "1", ",", "2", "3", "4", ".", "5", "0", " ", "USD">>
NumAnswers == SeqUpTo(NumAlphabet, MaxNumLen) \cup {UsdExample}
PostTypes == {"number", "string", "date"}

NoPost == [data_type |-> None, answer |-> <<>>, out |-> <<>>, done |-> FALSE]

\* lines 53-63 applied to one answer of query_document
PostProcessAnswer ==
    /\ post.data_type # None
    /\ ~post.done
    /\ post' = [post EXCEPT !.out = PostProcess(post.data_type, post.answer),
                            !.done = TRUE]
    /\ UNCHANGED <<store, files, ires, qres, exPc, exFields, exSid, exIdx,
                   exResults, exLast, fres, sres, frontendVars>>

\* the second marker of line 73, the Chinese phrase for "not mentioned"
NotMentioned == "wei ti ji"

\* a variant that does not ask for sources
NeedsWebSearchNoSources(answer, sources) ==
    Contains(answer, "MISSING") \/ Contains(answer, NotMentioned)

\* needs_web_search = "MISSING" in answer or <not mentioned> in answer
\*                    or not sources
NeedsWebSearch(answer, sources) ==
    Contains(answer, "MISSING") \/ Contains(answer, NotMentioned) \/ sources = <<>>

\* str(sources): the repr of a list of strings
RECURSIVE StrItems(_)
StrItems(list) ==
    IF list = <<>> THEN ""
    ELSE IF Len(list) = 1 THEN "'" \o list[1] \o "'"
    ELSE "'" \o list[1] \o "', " \o StrItems(Tail(list))

StrList(list) == "[" \o StrItems(list) \o "]"

\* FieldResult(key=..., value=answer, source=str(sources), confidence="High (Doc)")
DocResult(key, answer, sources) ==
    [key |-> key, value |-> answer, source |-> StrList(sources),
     confidence |-> "High (Doc)"]

WebResult(key, web_answer) ==
    [key |-> key, value |-> web_answer, source |-> "Internet Search",
     confidence |-> "Medium (Web)"]

\* a variant whose failed field carries no value
FailResultNull(key) ==
    [key |-> key, value |-> Null, source |-> "None", confidence |-> "None"]

FailResult(key) ==
    [key |-> key, value |-> <<"N/A">>, source |-> "None", confidence |-> "None"]

\* a variant of the second except clause that records nothing
OnWebFailureDrop(results, key) == results

\* the except clause of the web-search stage: results.append(FieldResult(...))
OnWebFailure(results, key) == Append(results, FailResult(key))

\* type_instruction, chosen by field.data_type
TypeInstruction(data_type) ==
    IF data_type = "number"
    THEN "Output ONLY the number. No currency symbols, no commas, no text units."
    ELSE IF data_type = "date"
    THEN "Output ONLY the date in YYYY-MM-DD format."
    ELSE IF data_type = "boolean"
    THEN "Output ONLY 'True' or 'False'."
    ELSE "Output ONLY the exact value string. Do not use full sentences."

NoExplainRule == "Do NOT explain your answer."
MissingRule == "If the information is not found, output exactly MISSING."

\* query_prompt, the text composed for the field (lines 36-44)
QueryPrompt(field) ==
    <<"Task: Extract the value for the field described as: ">>
    \o field.description
    \o <<"Rules:", TypeInstruction(field.data_type), NoExplainRule,
         "Do NOT mention According to the document.", MissingRule>>

MissingHint == "(If you don't know the specific value, please answer MISSING)"

\* the question handed to query_document
RagQuestion(description) ==
    description \o <<MissingHint>>

\* what the web-search stage can do: search_tool.invoke or the summary
\* chain raises, or the chain returns an answer
WebAnswers == {<<"x">>, <<"N/A">>}
WebEnvs ==
    {[web |-> "ok", web_answer |-> a] : a \in WebAnswers}
    \cup {[web |-> w, web_answer |-> <<>>] : w \in {"search_raises", "llm_raises"}}

\* the answers the agent gives while fields are extracted
ExtractAnswers == {<<"7">>, <<"MISSING">>, <<"MISSING", "7">>, <<"Search", "7">>}
ExtractOutputs == {StrOutput(a) : a \in ExtractAnswers}

\* the body of the loop of extract_fields for one field: the retrieval
\* stage with the outside world behaving as rag, then, unless its answer is
\* accepted, the web-search stage.  exLast records what happened.
ExtractOne(field, session_id, rag) ==
    LET question == RagQuestion(field.description)
        rag_answer_pack == QueryDocument(store, question, session_id, rag)
        raw_answer == rag_answer_pack.answer
        sources == rag_answer_pack.source_documents
        answer == PostProcess(field.data_type, raw_answer)
        needs_web_search ==
            IF rag_answer_pack.raised THEN TRUE ELSE NeedsWebSearch(answer, sources)
        seen == [key |-> field.key, data_type |-> field.data_type,
                 raw_missing |-> Contains(raw_answer, "MISSING"),
                 raw_sources |-> sources,
                 probe |-> rag_answer_pack.probe,
                 rag_failed |-> rag_answer_pack.raised \/ rag_answer_pack.error,
                 asked |-> Append(IF exLast = NoField THEN <<>> ELSE exLast.asked,
                                  question)]
    IN  IF ~needs_web_search
        THEN /\ exResults' = Append(exResults, DocResult(field.key, answer, sources))
             /\ exLast' = seen @@ [web_ran |-> FALSE, web_raised |-> FALSE]
        ELSE \E env \in WebEnvs :
               IF env.web = "ok"
               THEN /\ exResults' =
                          Append(exResults, WebResult(field.key, env.web_answer))
                    /\ exLast' = seen @@ [web_ran |-> TRUE, web_raised |-> FALSE]
               ELSE /\ exResults' = OnWebFailure(exResults, field.key)
                    /\ exLast' = seen @@ [web_ran |-> TRUE, web_raised |-> TRUE]

\* extract_fields(fields, session_id) starts: results = []
BeginExtract(fields, session_id) ==
    /\ exPc' = "loop"
    /\ exFields' = fields
    /\ exSid' = session_id
    /\ exIdx' = 0
    /\ exResults' = <<>>
    /\ exLast' = NoField

\* extract_fields is called: results = []
ExtractBegin ==
    /\ Idle
    /\ \E fields \in SeqUpTo(FieldSpecs, MaxFields), session_id \in Sessions :
        BeginExtract(fields, session_id)
    /\ UNCHANGED <<others, store, files, ires, qres, fres>>

\* one iteration of "for field in fields"
ExtractField ==
    /\ exPc = "loop"
    /\ exIdx < Len(exFields)
    /\ \E rag \in QueryEnvs(store, exSid, ExtractOutputs, {FALSE}) :
          ExtractOne(exFields[exIdx + 1], exSid, rag)
    /\ exIdx' = exIdx + 1
    /\ UNCHANGED <<others, store, files, ires, qres, fres, exPc, exFields, exSid>>

\* return results
ExtractReturn ==
    /\ exPc = "loop"
    /\ exIdx = Len(exFields)
    /\ exPc' = "done"
    /\ UNCHANGED <<others, store, files, ires, qres, fres, exFields, exSid, exIdx,
                   exResults, exLast>>

-----------------------------------------------------------------------------
(* file_filler_service.py *)

\* s.endswith(suffix)
EndsWith(s, suffix) ==
    /\ Len(s) >= Len(suffix)
    /\ SubSeq(s, Len(s) - Len(suffix) + 1, Len(s)) = suffix

\* old in s
HasSub(s, old) ==
    \E i \in 1..(Len(s) - Len(old) + 1) : SubSeq(s, i, i + Len(old) - 1) = old

\* s.replace(old, new): the occurrences of old, left to right, not overlapping
RECURSIVE ReplaceAll(_, _, _)
ReplaceAll(s, old, new) ==
    IF Len(s) < Len(old) THEN s
    ELSE IF SubSeq(s, 1, Len(old)) = old
    THEN new \o ReplaceAll(SubSeq(s, Len(old) + 1, Len(s)), old, new)
    ELSE <<s[1]>> \o ReplaceAll(Tail(s), old, new)

\* os.path.splitext(name)[1]: from the last dot on, unless only dots precede it
Splitext(name) ==
    LET dots == {i \in DOMAIN name : name[i] = "."}
    IN  IF dots = {} THEN <<>>
        ELSE LET i == CHOOSE k \in dots : \A l \in dots : l <= k
             IN  IF \A j \in 1..(i - 1) : name[j] = "." THEN <<>>
                 ELSE SubSeq(name, i, Len(name))

\* a variant that keeps the case of the file name
FillNameAsIs(filename) == filename

\* filename = file.filename.lower()
FillName(filename) == Lower(filename)

\* output_path = input_path.replace(".", "_filled.")
OutputPath(input_path) == ReplaceAll(input_path, <<".">>, <<"_filled.">>)

\* data_map = {item.key: str(item.value) for item in data if item.value is
\* not None}: a dict keeps its keys in the order of their first insertion
RECURSIVE DataMap(_)
DataMap(data) ==
    IF data = <<>> THEN <<>>
    ELSE LET m == DataMap(SubSeq(data, 1, Len(data) - 1))
             item == data[Len(data)]
         IN  IF item.value = Null THEN m
             ELSE IF \E i \in DOMAIN m : m[i].key = item.key
             THEN [i \in DOMAIN m |->
                      IF m[i].key = item.key
                      THEN [key |-> item.key, value |-> item.value] ELSE m[i]]
             ELSE Append(m, [key |-> item.key, value |-> item.value])

\* placeholder = f"{{{{{key}}}}}"
Placeholder(key) == <<"{{">> \o key \o <<"}}">>

\* for key, value in data.items(): if placeholder in text:
\*     text = text.replace(placeholder, value)
RECURSIVE FillText(_, _)
FillText(text, data) ==
    IF data = <<>> THEN text
    ELSE LET placeholder == Placeholder(data[1].key)
             filled == IF HasSub(text, placeholder)
                       THEN ReplaceAll(text, placeholder, data[1].value)
                       ELSE text
         IN  FillText(filled, Tail(data))

\* _fill_word: the paragraphs, then the cells of the tables
FillWord(doc, data) ==
    [doc EXCEPT
        !.paragraphs = [i \in DOMAIN doc.paragraphs |-> FillText(doc.paragraphs[i], data)],
        !.cells = [i \in DOMAIN doc.cells |-> FillText(doc.cells[i], data)]]

\* key = field_name.replace("(", "").replace(")", "")
WidgetKey(field_name) == RemoveTok(RemoveTok(field_name, "("), ")")

\* _fill_pdf: every field of the AcroForm that has a name
FillPdf(doc, data) ==
    [doc EXCEPT
        !.widgets = [i \in DOMAIN doc.widgets |->
            LET field == doc.widgets[i]
                key == WidgetKey(field.T)
            IN  IF field.T # <<>> /\ \E j \in DOMAIN data : data[j].key = key
                THEN [field EXCEPT !.V =
                        (CHOOSE e \in {data[j] : j \in DOMAIN data} : e.key = key).value]
                ELSE field]]

\* fill_document.  copy_ok: copyfileobj did not raise.  A filler raises when
\* the content is not of its format.
\* The result records the outcome, and for the properties the arguments
\* and the files that existed when the call began.
FillDocument(file, data, copy_ok) ==
    LET data_map == DataMap(data)
        filename == FillName(file.filename)
        input_path == TmpPath(FreshName(files), Splitext(filename))
        output_path == OutputPath(input_path)
        seen == [filename |-> file.filename, data |-> data,
                 template |-> file.content, before |-> files]
        Raised(e, called) ==
            [status |-> "raised", error |-> e, output_path |-> <<>>,
             called |-> called, content |-> NoDoc] @@ seen
        Returned(called, doc) ==
            [status |-> "ok", error |-> None, output_path |-> output_path,
             called |-> called, content |-> doc] @@ seen
    IN  IF ~copy_ok
        THEN \* raised inside the with block, before the try: the file stays
             /\ files' = files \cup {input_path}
             /\ fres' = Raised("copy", "none")
        ELSE IF EndsWith(filename, <<".", "pdf">>)
        THEN IF file.content.kind = "pdf"
             THEN /\ files' = (files \cup {output_path}) \ {input_path}
                  /\ fres' = Returned("pdf", FillPdf(file.content, data_map))
             ELSE /\ files' = files
                  /\ fres' = Raised("filler", "pdf")
        ELSE IF EndsWith(filename, <<".", "docx">>)
        THEN IF file.content.kind = "docx"
             THEN /\ files' = (files \cup {output_path}) \ {input_path}
                  /\ fres' = Returned("word", FillWord(file.content, data_map))
             ELSE /\ files' = files
                  /\ fres' = Raised("filler", "word")
        ELSE /\ files' = files
             /\ fres' = Raised("ValueError", "none")

FillNames ==
    {<<"form", ".", "pdf">>, <<"form", ".", "PDF">>, <<"form", ".", "docx">>,
     <<"form", ".", "DOCX">>, <<"form", ".", "txt">>, <<"form">>, <<".", "pdf">>,
     <<"form", ".", "pdf", ".", "txt">>}

\* the texts of a template: placeholders and words
Chunks == {<<"x">>} \cup {Placeholder(k) : k \in FieldKeys \cup {<<"c">>}}
Texts == {Join(cs, <<>>) : cs \in SeqUpTo(Chunks, MaxChunks)}

WordDoc(paragraphs, cells) ==
    [kind |-> "docx", paragraphs |-> paragraphs, cells |-> cells, widgets |-> <<>>]
PdfDoc(widgets) ==
    [kind |-> "pdf", paragraphs |-> <<>>, cells |-> <<>>, widgets |-> widgets]

WidgetNames ==
    {<<>>, <<"(", "a", ")">>, <<"(", "b", "(", "a", ")", ")">>, <<"(", "c", ")">>,
     <<"(", "(", "a", ")", ")">>}

Templates ==
    {WordDoc(<<t>>, <<>>) : t \in Texts}
    \cup {WordDoc(<<<<"x">>>>, <<t, t>>) : t \in Texts}
    \cup {PdfDoc(<<[T |-> n, V |-> <<>>]>>) : n \in WidgetNames}
    \cup {PdfDoc(<<[T |-> n, V |-> <<>>], [T |-> <<"(", "b", ")">>, V |-> <<"old">>]>>) :
            n \in WidgetNames}
    \cup {PdfDoc(<<>>)}
    \cup {[NoDoc EXCEPT !.kind = "other"]}

\* the FieldResults handed to the filler (key and value are all it reads)
FillValues == {Null, <<"5">>, <<"{{", "b", "}}">>}
FillItems == [key : FieldKeys, value : FillValues]

Fill ==
    /\ Idle
    /\ Cardinality(files) < MaxTmp
    /\ \/ \E filename \in FillNames, content \in Templates,
             data \in SeqUpTo(FillItems, MaxFields) :
           FillDocument([filename |-> filename, content |-> content], data, TRUE)
       \/ \* the upload cannot be read
          \E filename \in FillNames :
           FillDocument([filename |-> filename,
                         content |-> [NoDoc EXCEPT !.kind = "other"]], <<>>, FALSE)
    /\ UNCHANGED <<others, store, ires, qres, exPc, exFields, exSid, exIdx, exResults, exLast>>

-----------------------------------------------------------------------------
(* schema_service.py *)

\* what chain.ainvoke can hand back: an object with or without the entry
\* "fields", or a JSON value that is no object.  The entry is a list of
\* field specifications, a string or null.
SchemaLists == SeqUpTo(FieldSpecs, MaxFields + 1)
FieldsValues ==
    {Json("array", l) : l \in SchemaLists} \cup {Json("string", <<>>), Json("null", <<>>)}
SchemaResults ==
    {[kind |-> "object", has_fields |-> TRUE, fields |-> v] : v \in FieldsValues}
    \cup {[kind |-> "object", has_fields |-> FALSE, fields |-> NoJson]}
    \cup {[kind |-> k, has_fields |-> FALSE, fields |-> NoJson] : k \in {"array", "string"}}

\* a list without repeated keys: the first field specification of every key
RECURSIVE FirstOfEachKey(_)
FirstOfEachKey(l) ==
    IF l = <<>> THEN <<>>
    ELSE LET front == FirstOfEachKey(SubSeq(l, 1, Len(l) - 1))
             last == l[Len(l)]
         IN  IF \E i \in DOMAIN front : front[i].key = last.key
             THEN front ELSE Append(front, last)

\* result.get("fields", [])
GetFields(result) ==
    IF result.has_fields THEN result.fields ELSE Json("array", <<>>)

SchemaOutcomes == {"ok", "copy_error", "parse_error", "llm_error"}

\* analyze_form.  outcome: the step that raises, if any (the copy of the
\* upload, LlamaParse, the chain with its JSON parser); result: the parsed
\* output of the chain.
AnalyzeForm(filename, outcome, result) ==
    LET path == TmpPath(FreshName(files), Splitext(filename))
        seen == [filename |-> filename, has_fields |-> result.has_fields,
                 result |-> Json(result.kind, <<>>), fields |-> result.fields,
                 before |-> files]
        Raised(e) == [status |-> "raised", error |-> e, value |-> NoJson] @@ seen
    IN  CASE outcome = "copy_error" ->
                \* temp_file_path is still None: the finally clause removes nothing
                /\ files' = files \cup {path}
                /\ sres' = Raised("copy")
          [] outcome \in {"parse_error", "llm_error"} ->
                /\ files' = files
                /\ sres' = Raised(outcome)
          [] outcome = "ok" ->
                /\ files' = files
                /\ sres' = IF result.kind # "object" THEN Raised("AttributeError")
                           ELSE [status |-> "ok", error |-> None,
                                 value |-> GetFields(result)] @@ seen

SchemaNames == {<<"form", ".", "pdf">>, <<"form">>}

Analyze ==
    /\ Idle
    /\ \E filename \in SchemaNames, outcome \in SchemaOutcomes,
          result \in SchemaResults :
        /\ outcome # "ok" => result = [kind |-> "object", has_fields |-> FALSE,
                                       fields |-> NoJson]
        /\ outcome = "copy_error" => Cardinality(files) < MaxTmp
        /\ AnalyzeForm(filename, outcome, result)
    /\ UNCHANGED <<post, frontendVars, store, ires, qres, exPc, exFields, exSid, exIdx,
                   exResults, exLast, fres>>

-----------------------------------------------------------------------------
(* frontend/src/main.py, frontend/src/api_client.py, backend/app/main.py *)

\* the browser sessions that are open
Tabs == {"t1", "t2"}

\* str(uuid.uuid4()): a value that was not generated before
Uuid(n) == "u" \o ToString(n)

Ops == {"upload", "query", "extract"}

\* the arguments the frontend passes to api_client.upload_reference,
\* query_knowledge and extract_data: the data and the session id
FrontendArgs(op) == 2

\* the parameters of these static methods of APIClient: the data only
ClientParams(op) == 1

\* the arguments the backend handler passes to the service, and the
\* parameters of process_and_index_document(file, session_id),
\* query_document(question, session_id), extract_fields(fields, session_id)
HandlerArgs(op) == IF op = "upload" THEN 1 ELSE 2
ServiceParams(op) == 2

\* a call with positional arguments only: TypeError unless they fit
CallFits(given, params) == given = params

\* the collection_name entry of the JSON the client posts
ClientCollection(op) == IF op = "extract" THEN "reference_docs" ELSE None

\* request.collection_name of QueryRequest and ExtractionRequest
RequestCollection(posted) == IF posted = None THEN "reference_docs" ELSE posted

\* the sidebar button "New Chat / Clear Memory"
NewChat ==
    /\ Idle
    /\ uuids < MaxUuids
    /\ \E tab \in Tabs :
        feSession' = [feSession EXCEPT ![tab] = Uuid(uuids + 1)]
    /\ uuids' = uuids + 1
    /\ UNCHANGED <<store, files, ires, qres, exPc, exFields, exSid, exIdx,
                   exResults, exLast, fres, post, sres, req>>

\* a browser session sends an upload, a question or an extraction.
\* via = "frontend": the call as frontend/src/main.py writes it;
\* via = "client": the method of APIClient called with the arguments it declares.
Request ==
    /\ Idle
    /\ \E tab \in Tabs, op \in Ops, via \in {"frontend", "client"} :
        LET given == IF via = "frontend" THEN FrontendArgs(op) ELSE ClientParams(op)
            seen == [op |-> op, tab |-> tab, via |-> via,
                     fe_session |-> feSession[tab]]
            Failed(e) == [error |-> e, used |-> None, collection |-> None] @@ seen
            session_id == RequestCollection(ClientCollection(op))
            Routed == [error |-> None, used |-> session_id,
                       collection |-> CollectionName(session_id)] @@ seen
            NoExtract == UNCHANGED <<exPc, exFields, exSid, exIdx, exResults, exLast>>
        IN  IF ~CallFits(given, ClientParams(op))
            THEN \* TypeError in the frontend, nothing is sent
                 /\ req' = Failed("TypeError")
                 /\ qres' = qres
                 /\ NoExtract
            ELSE IF ~CallFits(HandlerArgs(op), ServiceParams(op))
            THEN \* TypeError in the handler: HTTPException(status_code=500)
                 /\ req' = Failed("HTTP 500")
                 /\ qres' = qres
                 /\ NoExtract
            ELSE IF op = "query"
            THEN /\ req' = Routed
                 /\ \E question \in Questions :
                    \E env \in QueryEnvs(store, session_id, ExtractOutputs, {FALSE}) :
                       qres' = QueryDocument(store, question, session_id, env)
                 /\ NoExtract
            ELSE /\ req' = Routed
                 /\ qres' = qres
                 /\ \E fields \in SeqUpTo(FieldSpecs, MaxExItems) :
                       BeginExtract(fields, session_id)
    /\ UNCHANGED <<store, files, ires, fres, post, sres, feSession, uuids>>

-----------------------------------------------------------------------------
(* The specifications *)

\* the caller has taken the value the last call returned (or its exception)
Return ==
    /\ ires # NoIndex \/ qres # NoQuery \/ exPc = "done" \/ fres # NoFill
          \/ sres # NoSchema \/ req # NoReq
    /\ ires' = NoIndex
    /\ qres' = NoQuery
    /\ fres' = NoFill
    /\ exPc' = "idle"
    /\ exFields' = <<>>
    /\ exSid' = None
    /\ exIdx' = 0
    /\ exResults' = <<>>
    /\ exLast' = NoField
    /\ sres' = NoSchema
    /\ req' = NoReq
    /\ UNCHANGED <<post, store, files, feSession, uuids>>

Init ==
    /\ store = <<>>
    /\ files = {}
    /\ ires = NoIndex
    /\ qres = NoQuery
    /\ exPc = "idle"
    /\ exFields = <<>>
    /\ exSid = None
    /\ exIdx = 0
    /\ exResults = <<>>
    /\ exLast = NoField
    /\ fres = NoFill
    /\ post = NoPost
    /\ sres = NoSchema
    /\ feSession = [t \in Tabs |-> Uuid(IF t = "t1" THEN 1 ELSE 2)]
    /\ uuids = 2
    /\ req = NoReq

Next == Index \/ Query \/ Return

Spec == Init /\ [][Next]_vars

\* the extraction loop, for a session with uploads and for one without
ExtractNext ==
    IndexWith({"a.pdf"}, {"s1"}, MaxExItems, {"ok"}) \/ ExtractBegin \/ ExtractField \/ ExtractReturn \/ Return

SpecExtract == Init /\ [][ExtractNext]_vars

\* the document filler
FillNext == Fill \/ Return

SpecFill == Init /\ [][FillNext]_vars

\* schema inference
SchemaNext == Analyze \/ Return

SpecSchema == Init /\ [][SchemaNext]_vars

\* the three services that copy an upload into a temporary file
FilesNext ==
    IndexWith({"a.pdf"}, {"s1"}, MaxExItems, IndexOutcomes) \/ Analyze \/ Fill \/ Return

SpecFiles == Init /\ [][FilesNext]_vars

\* the browser sessions and their requests
RoutingNext == NewChat \/ Request \/ ExtractField \/ ExtractReturn \/ Return

SpecRouting == Init /\ [][RoutingNext]_vars

\* the numeric post-processing, for every type and answer
PostInit ==
    /\ store = <<>>
    /\ files = {}
    /\ ires = NoIndex
    /\ qres = NoQuery
    /\ exPc = "idle"
    /\ exFields = <<>>
    /\ exSid = None
    /\ exIdx = 0
    /\ exResults = <<>>
    /\ exLast = NoField
    /\ fres = NoFill
    /\ sres = NoSchema
    /\ feSession = [t \in Tabs |-> Uuid(IF t = "t1" THEN 1 ELSE 2)]
    /\ uuids = 2
    /\ req = NoReq
    /\ post \in [data_type : PostTypes, answer : NumAnswers, out : {<<>>}, done : {FALSE}]

PostNext == PostProcessAnswer

SpecPost == PostInit /\ [][PostNext]_vars

-----------------------------------------------------------------------------
(* Properties of the vector store and of query_document *)

Queried == qres # NoQuery

\* the session of the last query has no indexed document: its collection
\* does not exist, or exists with item count 0
ZeroDocs(st, session_id) ==
    \/ CollectionName(session_id) \notin DOMAIN st
    \/ Len(st[CollectionName(session_id)]) = 0

\* C1: session isolation.  Every document retrieved by a query of session A
\* was indexed by a call with session id A, and every source identifier the
\* query returns is the source of such a document or the search marker.
SessionIsolation ==
    Queried =>
        /\ \A i \in DOMAIN qres.docs : qres.docs[i].owner = qres.session_id
        /\ \A i \in DOMAIN qres.source_documents :
              \/ qres.source_documents[i] = "Internet Search"
              \/ \E j \in DOMAIN qres.docs :
                    /\ qres.docs[j].source = qres.source_documents[i]
                    /\ qres.docs[j].owner = qres.session_id

\* C1 witness: a query returned documents while another session also holds some
SessionIsolationWitness ==
    /\ Queried
    /\ qres.docs # <<>>
    /\ \E s \in Sessions : s # qres.session_id /\ ~ZeroDocs(store, s)

\* C2 as stated: a query of a session with zero indexed documents probes
\* false, retrieves nothing and returns an empty source_documents list.
ZeroDocsEmptySources ==
    (Queried /\ ZeroDocs(store, qres.session_id)) =>
        /\ ~qres.probe
        /\ qres.docs = <<>>
        /\ qres.source_documents = <<>>

\* C2 amended: a query of a session with zero indexed documents probes
\* false, retrieves nothing and returns no document source: source_documents
\* is empty, or is exactly <<"Internet Search">>, the latter exactly when the
\* call did not fail and the search marker fires.
ZeroDocsNoDocumentSource ==
    (Queried /\ ZeroDocs(store, qres.session_id)) =>
        /\ ~qres.probe
        /\ qres.docs = <<>>
        /\ qres.source_documents =
              IF ~qres.error /\ (qres.duck \/ Contains(Lower(qres.answer), "search"))
              THEN <<"Internet Search">> ELSE <<>>

\* C2 witness: the collection exists but is empty, and the query of that
\* session came back with the search marker as its only source
ZeroDocsWitness ==
    /\ Queried
    /\ CollectionName(qres.session_id) \in DOMAIN store
    /\ ZeroDocs(store, qres.session_id)
    /\ qres.source_documents = <<"Internet Search">>

\* C8: query_document never propagates an exception; its result always has
\* a text answer and a list of sources, and when a step raised the answer
\* describes the error and the sources are empty, whatever was collected.
QueryNeverRaises ==
    Queried =>
        /\ ~qres.raised
        /\ DOMAIN qres.answer = 1..Len(qres.answer)
        /\ \A i \in DOMAIN qres.answer : qres.answer[i] \in STRING
        /\ DOMAIN qres.source_documents = 1..Len(qres.source_documents)
        /\ qres.error =>
              /\ qres.source_documents = <<>>
              /\ Len(qres.answer) = 2
              /\ qres.answer[1] = "I encountered an error while thinking: "

\* C8 witness: a step raised after documents had been retrieved
QueryNeverRaisesWitness ==
    Queried /\ qres.error /\ qres.docs # <<>> /\ qres.source_documents = <<>>

\* C15 as stated: when the agent ran its search tool while it produced the
\* answer, source_documents holds "Internet Search", once, as its last entry
\* after the sources of the retrieved documents.
ToolUseMarksSources ==
    (Queried /\ qres.tool) =>
        LET sources == qres.source_documents
        IN  /\ InList("Internet Search", sources)
            /\ Cardinality({i \in DOMAIN sources : sources[i] = "Internet Search"}) = 1
            /\ sources[Len(sources)] = "Internet Search"
            /\ SubSeq(sources, 1, Len(sources) - 1) =
                  [i \in DOMAIN qres.docs |-> qres.docs[i].source]

\* what a collection holds, nothing for a collection that does not exist
Held(st, c) == IF c \in DOMAIN st THEN st[c] ELSE <<>>

\* C14: indexing is additive.  No step removes a collection or a stored
\* document, or changes one: what a collection held is a prefix of what it
\* holds afterwards.  A successful process_and_index_document(file, S)
\* leaves the collection of S existing, holding what it held followed by one
\* document per parsed page, each with the uploaded filename as its source;
\* it reports that number of pages as chunks, and touches no other collection.
IndexingAdditive ==
    [][/\ \A c \in DOMAIN store :
            /\ c \in DOMAIN store'
            /\ Len(store'[c]) >= Len(store[c])
            /\ SubSeq(store'[c], 1, Len(store[c])) = store[c]
       /\ (ires = NoIndex /\ ires'.status = "success") =>
            LET c == ires'.collection
                added == SubSeq(Held(store', c), Len(Held(store, c)) + 1,
                                Len(Held(store', c)))
            IN  /\ c = "session_" \o ires'.session_id
                /\ c \in DOMAIN store'
                /\ Held(store', c) = Held(store, c) \o added
                /\ Len(added) = ires'.pages
                /\ ires'.chunks = ires'.pages
                /\ \A i \in DOMAIN added : added[i].source = ires'.filename
                /\ \A o \in DOMAIN store' \ {c} :
                      o \in DOMAIN store /\ store'[o] = store[o]]_vars

\* C14 witness: the same one-page file was uploaded twice to one session and
\* the collection holds its page twice
IndexingAdditiveWitness ==
    /\ ires.status = "success"
    /\ ires.chunks = 1
    /\ Len(Held(store, ires.collection)) = 2
    /\ store[ires.collection][1] = store[ires.collection][2]
    /\ store[ires.collection][2].source = ires.filename

-----------------------------------------------------------------------------
(* Properties of extract_fields *)

\* a field has been handled, and LastResult is the result appended for it
Handled == exLast # NoField /\ exResults # <<>>
LastResult == exResults[Len(exResults)]

High(r) == r.confidence = "High (Doc)"
Medium(r) == r.confidence = "Medium (Web)"

\* C3 as stated: a field extracted against a session without indexed
\* documents is never marked High.
NoDocsNeverHigh ==
    (Handled /\ ZeroDocs(store, exSid)) => ~High(LastResult)

\* C4 as stated: a result whose answer came from the web-search stage, or
\* from a retrieval answer whose sources include "Internet Search", is never
\* High, and is Medium when it carries an answer.
SearchCapsConfidence ==
    (Handled /\ (exLast.web_ran \/ InList("Internet Search", exLast.raw_sources))) =>
        /\ ~High(LastResult)
        /\ ~exLast.web_raised => Medium(LastResult)

\* C5 as stated: High implies that the retrieval answer had sources, did not
\* contain the marker and that the web-search stage did not run; and the
\* web-search stage runs whenever the retrieval answer contains the marker,
\* has no source, or retrieval failed.
HighMeansGrounded ==
    Handled =>
        /\ High(LastResult) =>
              /\ exLast.raw_sources # <<>>
              /\ ~exLast.raw_missing
              /\ ~exLast.web_ran
        /\ (exLast.raw_missing \/ exLast.raw_sources = <<>> \/ exLast.rag_failed)
              => exLast.web_ran

\* C6: extract_fields hands back one result per field specification, in
\* order and with the key of the specification, whatever fails on the way:
\* after i iterations the list holds the results of the first i fields, and
\* the call ends by returning the list of all of them.
OneResultPerField ==
    /\ exPc \in {"idle", "loop", "done"}
    /\ exPc # "idle" =>
          /\ Len(exResults) = exIdx
          /\ \A i \in 1..Len(exResults) : exResults[i].key = exFields[i].key
    /\ exPc = "done" => Len(exResults) = Len(exFields)

\* C6 witness: the first field failed for good and the second, with another
\* key, was answered from the documents
OneResultPerFieldWitness ==
    /\ exPc = "done"
    /\ Len(exResults) = 2
    /\ exResults[1].confidence = "None"
    /\ High(exResults[2])
    /\ exResults[1].key # exResults[2].key

\* C7 as stated: a field that failed for good has the value null, the source
\* "None" and the confidence "None".
FailedFieldIsNull ==
    (Handled /\ exLast.web_raised) =>
        LastResult = [key |-> exLast.key, value |-> Null,
                      source |-> "None", confidence |-> "None"]

\* C7 amended: a field that failed for good has the placeholder text "N/A"
\* as its value (not null), the source "None" and the confidence "None".
FailedFieldIsPlaceholder ==
    (Handled /\ exLast.web_raised) =>
        LastResult = [key |-> exLast.key, value |-> <<"N/A">>,
                      source |-> "None", confidence |-> "None"]

\* C7 witness: retrieval answered with the marker and the web search raised
FailedFieldWitness ==
    /\ Handled
    /\ exLast.raw_missing
    /\ exLast.web_raised
    /\ LastResult.confidence = "None"

\* C16 as stated: the question asked for every field holds the instruction
\* chosen by the data type of the field, a rule to answer with the marker
\* MISSING and the rule not to explain; two fields with one description and
\* different data types are asked different questions.
ComposedQuestionAsked ==
    Handled =>
        /\ Len(exLast.asked) = exIdx
        /\ \A i \in DOMAIN exLast.asked :
              /\ InList(TypeInstruction(exFields[i].data_type), exLast.asked[i])
              /\ InList(MissingRule, exLast.asked[i])
                    \/ InList(MissingHint, exLast.asked[i])
              /\ InList(NoExplainRule, exLast.asked[i])
        /\ \A i, j \in DOMAIN exLast.asked :
              (/\ exFields[i].description = exFields[j].description
               /\ exFields[i].data_type # exFields[j].data_type)
                  => exLast.asked[i] # exLast.asked[j]

\* C17 as stated: whatever the data type of the field, when the answer
\* query_document returned contains MISSING the field is not finalised as
\* High and the web-search stage runs.
SentinelAlwaysDetected ==
    (Handled /\ ~exLast.rag_failed /\ exLast.raw_missing) =>
        /\ ~High(LastResult)
        /\ exLast.web_ran

-----------------------------------------------------------------------------
(* Properties of fill_document *)

Filled == fres # NoFill

\* every placeholder of a key of the map replaced by the mapped text in one
\* pass over the text, everything else kept as it is
RECURSIVE Substituted(_, _)
Substituted(text, data) ==
    IF text = <<>> THEN <<>>
    ELSE LET hits == {j \in DOMAIN data :
                        /\ Len(text) >= Len(Placeholder(data[j].key))
                        /\ SubSeq(text, 1, Len(Placeholder(data[j].key)))
                              = Placeholder(data[j].key)}
         IN  IF hits = {}
             THEN <<text[1]>> \o Substituted(Tail(text), data)
             ELSE LET j == CHOOSE k \in hits : TRUE
                  IN  data[j].value \o
                      Substituted(SubSeq(text, Len(Placeholder(data[j].key)) + 1,
                                         Len(text)), data)

\* C9 as stated: in the output of a filled .docx every placeholder of a key
\* of the value map is replaced by the mapped text, the other placeholders
\* and all other text are as in the template.
WordFillSubstitutes ==
    (Filled /\ fres.status = "ok" /\ fres.called = "word") =>
        LET m == DataMap(fres.data)
            t == fres.template
        IN  /\ fres.content.paragraphs =
                  [i \in DOMAIN t.paragraphs |-> Substituted(t.paragraphs[i], m)]
            /\ fres.content.cells =
                  [i \in DOMAIN t.cells |-> Substituted(t.cells[i], m)]

\* the orders in which the entries of a map can be visited
Orders(m) == {[i \in DOMAIN m |-> m[f[i]]] : f \in Picks(Len(m), Len(m))}

\* C18 as stated: the substitution of _fill_word is one simultaneous pass.
\* A text that is exactly the placeholder of a key of the map becomes the
\* value of that key, verbatim, also when the value holds the placeholder of
\* another key; and the output is the same for every iteration order of the
\* value map.
WordFillSinglePass ==
    (Filled /\ fres.status = "ok" /\ fres.called = "word") =>
        LET m == DataMap(fres.data)
            t == fres.template
        IN  /\ \A j \in DOMAIN m :
                  /\ \A i \in DOMAIN t.paragraphs :
                        t.paragraphs[i] = Placeholder(m[j].key)
                            => fres.content.paragraphs[i] = m[j].value
                  /\ \A i \in DOMAIN t.cells :
                        t.cells[i] = Placeholder(m[j].key)
                            => fres.content.cells[i] = m[j].value
            /\ \A o \in Orders(m) : FillWord(t, o) = fres.content

Supported(filename) ==
    \/ EndsWith(Lower(filename), <<".", "pdf">>)
    \/ EndsWith(Lower(filename), <<".", "docx">>)

\* C10: fill_document on a file whose extension is neither .pdf nor .docx
\* fails (with the unsupported-format error when the upload could be
\* copied), returns no path, calls no filler and leaves no output file;
\* the extension is matched whatever its case, so that .PDF goes to the PDF
\* filler and .DOCX to the Word filler.
UnsupportedFormatFails ==
    Filled =>
        /\ ~Supported(fres.filename) =>
              /\ fres.status = "raised"
              /\ fres.output_path = <<>>
              /\ fres.called = "none"
              /\ fres.error # "copy" => (fres.error = "ValueError" /\ files = fres.before)
        /\ (Supported(fres.filename) /\ fres.error # "copy") =>
              fres.called = IF EndsWith(Lower(fres.filename), <<".", "pdf">>)
                            THEN "pdf" ELSE "word"

\* C10 witness: a .txt file was refused with the unsupported-format error
UnsupportedFormatWitness ==
    /\ Filled
    /\ fres.filename = <<"form", ".", "txt">>
    /\ fres.error = "ValueError"
    /\ fres.template.kind = "docx"

\* the name a PDF string literal stands for: the text between its enclosing
\* parentheses
EnclosedName(field_name) ==
    IF Len(field_name) >= 2 /\ field_name[1] = "(" /\ field_name[Len(field_name)] = ")"
    THEN SubSeq(field_name, 2, Len(field_name) - 1)
    ELSE field_name

\* the value the map gives to a key
MapValue(m, key) == (CHOOSE e \in {m[j] : j \in DOMAIN m} : e.key = key).value

\* C11 as stated: in the output of a filled PDF a widget carries the mapped
\* text exactly when its name, the enclosing parentheses of the encoding
\* taken off and nothing else, is a key of the value map; every other widget
\* is as in the template.
PdfFillMatchesExactName ==
    (Filled /\ fres.status = "ok" /\ fres.called = "pdf") =>
        LET m == DataMap(fres.data)
            t == fres.template
        IN  /\ DOMAIN fres.content.widgets = DOMAIN t.widgets
            /\ \A i \in DOMAIN t.widgets :
                  LET name == EnclosedName(t.widgets[i].T)
                  IN  IF t.widgets[i].T # <<>> /\ \E j \in DOMAIN m : m[j].key = name
                      THEN fres.content.widgets[i] =
                              [t.widgets[i] EXCEPT !.V = MapValue(m, name)]
                      ELSE fres.content.widgets[i] = t.widgets[i]

-----------------------------------------------------------------------------
(* Properties of the numeric post-processing *)

\* a signed decimal: an optional minus, digits with at most one point among
\* them, a digit at the end
IsNumber(t) ==
    /\ t # <<>>
    /\ LET body == IF t[1] = "-" THEN Tail(t) ELSE t
       IN  /\ body # <<>>
           /\ \A i \in DOMAIN body : body[i] \in Digits \cup {"."}
           /\ Cardinality({i \in DOMAIN body : body[i] = "."}) <= 1
           /\ body[Len(body)] \in Digits

\* the first numeric substring of c: the leftmost start, the longest from there
FirstNumber(c) ==
    LET spans == {sp \in (DOMAIN c) \X (DOMAIN c) :
                    sp[1] <= sp[2] /\ IsNumber(SubSeq(c, sp[1], sp[2]))}
        first == CHOOSE sp \in spans :
                    \A o \in spans :
                        sp[1] < o[1] \/ (sp[1] = o[1] /\ sp[2] >= o[2])
    IN  SubSeq(c, first[1], first[2])

\* C12: the answer of a number field becomes the first signed-decimal
\* substring of the answer without its commas; an answer without a digit,
\* and the answer of a field of any other type, stays as it is.
NumericPostProcessing ==
    post.done =>
        IF post.data_type = "number"
             /\ \E i \in DOMAIN post.answer : post.answer[i] \in Digits
        THEN post.out = FirstNumber(SelectSeq(post.answer, LAMBDA t : t # ","))
        ELSE post.out = post.answer

\* C12 witness: "$1,234.50 USD" of a number field became "1234.50"
NumericPostProcessingWitness ==
    /\ post.done
    /\ post.data_type = "number"
    /\ post.answer = UsdExample
    /\ post.out = <<"1", "2", "3", "4", ".", "5", "0">>

-----------------------------------------------------------------------------
(* Properties of analyze_form *)

Analyzed == sres # NoSchema

\* the output of the chain is an object whose entry "fields" is a list
ExpectedStructure ==
    sres.result.kind = "object" /\ sres.has_fields /\ sres.fields.kind = "array"

\* C13 as stated: analyze_form returns a list of field specifications
\* without a repeated key, the first specification of every key of the model
\* output in their order; and it fails when the output is not an object with
\* a list under "fields".
SchemaKeysUnique ==
    (Analyzed /\ sres.error \notin {"copy", "parse_error", "llm_error"}) =>
        IF ExpectedStructure
        THEN /\ sres.status = "ok"
             /\ sres.value = Json("array", FirstOfEachKey(sres.fields.items))
             /\ \A i, j \in DOMAIN sres.value.items :
                   i # j => sres.value.items[i].key # sres.value.items[j].key
        ELSE sres.status = "raised"

-----------------------------------------------------------------------------
(* Properties of the temporary files *)

\* C19 as stated: whatever the exit path of process_and_index_document,
\* analyze_form and fill_document, the temporary copy of the upload that the
\* call made is gone when the call ends: an indexing or analysing call, and
\* a filling call that fails, leave the files as they were; a filling call
\* that succeeds leaves exactly one more file, the output it returns, which
\* exists and is not the temporary input.
TempFilesCleaned ==
    [][/\ (ires = NoIndex /\ ires' # NoIndex) => files' = files
       /\ (sres = NoSchema /\ sres' # NoSchema) => files' = files
       /\ (fres = NoFill /\ fres' # NoFill) =>
            LET input_path ==
                    TmpPath(FreshName(files), Splitext(FillName(fres'.filename)))
            IN  IF fres'.status = "ok"
                THEN /\ fres'.output_path # input_path
                     /\ fres'.output_path \in files'
                     /\ files' = files \cup {fres'.output_path}
                ELSE files' = files]_vars

-----------------------------------------------------------------------------
(* Properties of the routing of sessions *)

\* C20 as stated: the browser sessions have different session ids, and the
\* session id the backend hands to the service for an upload, a question or
\* an extraction of a browser session is the id of that browser session, so
\* that the collection read or written is the one of that session.
SessionRouting ==
    /\ \A t1, t2 \in Tabs : t1 # t2 => feSession[t1] # feSession[t2]
    /\ req # NoReq =>
          /\ req.used = req.fe_session
          /\ req.collection = "session_" \o req.fe_session

====
